---- MODULE Spec2Model ----
(***************************************************************************)
(* A model of lollms/binding.py: the LLMBinding base class.                *)
(*                                                                         *)
(* Strings are sequences of one-character strings, so that the substring,  *)
(* index, suffix and lower-casing tests of the code are computed as the    *)
(* code computes them.  A pathlib.Path is a record [root, parts]: root is  *)
(* the number of leading slashes pathlib keeps (0 relative, 1 absolute,    *)
(* 2 for the POSIX "//" root) and parts the sequence of its components.    *)
(***************************************************************************)
EXTENDS Integers, Sequences, FiniteSets, TLC

\* ------------------------------------------------------------------ bounds
\* A model name is the concatenation of at most MaxChunks chunks of Chunks.
MaxChunks == 3
\* At most MaxConstructions bindings are constructed on one configuration path.
MaxConstructions == 3
\* download_and_install_wheel is called while fewer than MaxTempDirs temporary
\* directories are left behind on disk.
MaxTempDirs == 2
\* nvidia-smi prints at most MaxGpus rows.
MaxGpus == 2

\* ------------------------------------------------------------ str helpers
\* str.lower() on the characters the model uses.
Lower(c) ==
    CASE c = "A" -> "a"
      [] c = "G" -> "g"
      [] c = "M" -> "m"
      [] c = "L" -> "l"
      [] c = "U" -> "u"
      [] c = "F" -> "f"
      [] OTHER -> c

LowerStr(s) == [i \in 1..Len(s) |-> Lower(s[i])]

\* sub occurs in s at (1-based) position i.
OccursAt(sub, s, i) ==
    /\ i + Len(sub) - 1 <= Len(s)
    /\ \A k \in 1..Len(sub) : s[i + k - 1] = sub[k]

\* Python's `sub in s`.
Contains(sub, s) == \E i \in 1..(Len(s) + 1) : OccursAt(sub, s, i)

\* Python's s.index(sub), 0-based; -1 stands for the ValueError it raises.
Index(s, sub) ==
    IF Contains(sub, s)
    THEN (CHOOSE i \in 1..(Len(s) + 1) :
            /\ OccursAt(sub, s, i)
            /\ \A j \in 1..(i - 1) : ~OccursAt(sub, s, j)) - 1
    ELSE -1

\* Python's s.endswith(suf).
EndsWith(s, suf) ==
    /\ Len(suf) <= Len(s)
    /\ OccursAt(suf, s, Len(s) - Len(suf) + 1)

\* Python's s[:n].
Take(s, n) == SubSeq(s, 1, n)

\* --------------------------------------------------------------- pathlib
\* The components of a path string: split on "/", empty and "." components
\* dropped (pathlib does not drop "..").
KeepPart(cur) == IF cur = <<>> \/ cur = <<".">> THEN <<>> ELSE <<cur>>

RECURSIVE SplitParts(_, _, _)
SplitParts(s, i, cur) ==
    IF i > Len(s) THEN KeepPart(cur)
    ELSE IF s[i] = "/" THEN KeepPart(cur) \o SplitParts(s, i + 1, <<>>)
    ELSE SplitParts(s, i + 1, Append(cur, s[i]))

RECURSIVE LeadingSlashes(_, _)
LeadingSlashes(s, i) ==
    IF i > Len(s) \/ s[i] # "/" THEN 0 ELSE 1 + LeadingSlashes(s, i + 1)

\* pathlib.Path(s) on POSIX: exactly two leading slashes are kept, any
\* other number of them is one root.
Path(s) ==
    LET n == LeadingSlashes(s, 1)
    IN  [root |-> IF n = 0 THEN 0 ELSE IF n = 2 THEN 2 ELSE 1,
         parts |-> SplitParts(s, 1, <<>>)]

\* Path.__truediv__ with a Path operand: an absolute right operand replaces
\* the left one.
PathJoin(p, q) ==
    IF q.root > 0 THEN q ELSE [root |-> p.root, parts |-> p.parts \o q.parts]

\* mn / model_name with a str operand.
PathJoinStr(p, s) == PathJoin(p, Path(s))

\* Path.name: the last component, "" when there is none.
PathName(p) == IF p.parts = <<>> THEN <<>> ELSE p.parts[Len(p.parts)]

RECURSIVE JoinParts(_)
JoinParts(ps) ==
    IF ps = <<>> THEN <<>>
    ELSE IF Len(ps) = 1 THEN ps[1]
    ELSE ps[1] \o <<"/">> \o JoinParts(Tail(ps))

\* str(path).
PathStr(p) ==
    IF p.root = 0 /\ p.parts = <<>> THEN <<".">>
    ELSE [i \in 1..p.root |-> "/"] \o JoinParts(p.parts)

\* ------------------------------------------------------- named strings
ggml == <<"g", "g", "m", "l">>
gguf == <<"g", "g", "u", "f">>
GGUF == <<"G", "G", "U", "F">>
markerGGML == <<"-", "G", "G", "M", "L">>
markerGGUF == <<"-", "G", "G", "U", "F">>
dotReference == <<".", "r", "e", "f", "e", "r", "e", "n", "c", "e">>
\* binding_dir.stem
binding_folder_name == <<"b">>
\* config.lollms_paths.personal_models_path
personal_models_path == [root |-> 1, parts |-> << <<"m">> >>]

\* ------------------------------------------------------------- inputs
\* The chunks model names are made of.
Chunks == { <<"a">>, markerGGML, markerGGUF, ggml, gguf, <<"/">>, dotReference }

RECURSIVE NamesOfLen(_)
NamesOfLen(n) ==
    IF n = 0 THEN { <<>> }
    ELSE { c \o r : c \in Chunks, r \in NamesOfLen(n - 1) }

ModelNames == UNION { NamesOfLen(n) : n \in 0..MaxChunks }

\* The names the lookups are made with where the life cycle is explored.
ShortNames == NamesOfLen(0) \cup NamesOfLen(1)

\* config.model_name is None.
NoneName == [isNone |-> TRUE, s |-> <<>>]

\* The model_type argument of searchModelParentFolder: a str or None.
ModelTypes ==
    { [isNone |-> TRUE, s |-> <<>>],
      [isNone |-> FALSE, s |-> ggml],
      [isNone |-> FALSE, s |-> GGUF],
      [isNone |-> FALSE, s |-> <<"a">>] }

\* The models_dir_names argument of the constructor: a list or None.
DirNameLists ==
    { [isNone |-> TRUE, names |-> <<>>],
      [isNone |-> FALSE, names |-> <<>>],
      [isNone |-> FALSE, names |-> <<ggml, gguf>>],
      [isNone |-> FALSE, names |-> <<gguf, ggml>>],
      [isNone |-> FALSE, names |-> << <<"a">>, ggml >>],
      [isNone |-> FALSE, names |-> <<GGUF, gguf>>] }

\* What a reference file may hold: "", "a", "/a", "a/", "//a", "///a",
\* "a//a", "./a".
RefContents ==
    { <<>>, <<"a">>, <<"/", "a">>, <<"a", "/">>, <<"/", "/", "a">>,
      <<"/", "/", "/", "a">>, <<"a", "/", "/", "a">>, <<".", "/", "a">> }

\* ---------------------------------------------------------------- state
VARIABLES
    cfgFile,        \* configuration_file_path on disk: "missing", "corrupt",
                    \* or the document it holds ("default", "custom")
    cfgMem,         \* binding_config.config, the document held in memory
    constructed,    \* an LLMBinding has been constructed
    models_folders, \* self.models_folders, a sequence of Paths
    dirs,           \* the directories that exist on disk
    tempDirs,       \* temporary directories of mkdtemp still on disk
    prevLoad,       \* how the previous load_binding_config ended, "none"
                    \* once the file has been written or touched since
    ctors,          \* constructions so far
    installs,       \* calls of install() so far
    fresh,          \* the constructions so far began with no configuration
                    \* file, all used INSTALL_IF_NECESSARY, and nothing
                    \* outside the binding has removed the file since
    last            \* the call in progress: its arguments and its outcome

vars == <<cfgFile, cfgMem, constructed, models_folders, dirs, tempDirs,
          prevLoad, ctors, installs, fresh, last>>

Idle == [op |-> "none"]

\* ------------------------------------------------------------ file system
\* The files of each models directory (Path.iterdir, in no particular
\* order).
DirListing(d) ==
    CASE d = ggml -> { <<"a", ".", "b">>, <<"A", "a">>, <<"a">> \o dotReference }
      [] d = gguf -> { <<"a", ".", "b">>, <<"a">> \o dotReference }
      [] d = <<"a">> -> { <<"a">> \o dotReference }
      [] d = binding_folder_name -> { <<"a">> \o dotReference }
      [] OTHER -> {}

\* Path.exists() of a file path.
Exists(p) ==
    /\ p.root = 1
    /\ Len(p.parts) = 3
    /\ p.parts[1] = personal_models_path.parts[1]
    /\ p.parts[3] \in DirListing(p.parts[2])

\* f.read() of an existing file: a reference file holds content, any other
\* file is a model.
ReadFile(p, content) ==
    IF EndsWith(PathName(p), dotReference) THEN content ELSE <<"b">>

\* ------------------------------------------------- model path resolution
\* QuantisedCandidates with the file names compared as they are, not
\* lower-cased.
QuantisedCandidates_caseSensitive(mn, model_name, marker) ==
    LET idx == Index(model_name, marker)
    IN  IF idx < 0 THEN {}
        ELSE { m \in DirListing(PathName(mn)) :
                 Contains(LowerStr(Take(model_name, idx)), m) }

\* The try block of the ggml / gguf branch of searchModelPath: the files
\* whose lower-cased name contains the lower-cased part of model_name before
\* the marker; none when index() raises ValueError.
QuantisedCandidates(mn, model_name, marker) ==
    LET idx == Index(model_name, marker)
    IN  IF idx < 0 THEN {}
        ELSE { m \in DirListing(PathName(mn)) :
                 Contains(LowerStr(Take(model_name, idx)), LowerStr(m)) }

\* mn/models[0].name, models[0] being whichever match iterdir lists first;
\* the bare except turns ValueError and IndexError into mn/model_name.
QuantisedPaths(mn, model_name, marker) ==
    LET models == QuantisedCandidates(mn, model_name, marker)
    IN  IF models = {} THEN { PathJoinStr(mn, model_name) }
        ELSE { PathJoinStr(mn, m) : m \in models }

\* The body of the loop of searchModelPath for the folder that matches.
MatchedPaths(mn, model_name) ==
    IF PathName(mn) = ggml THEN QuantisedPaths(mn, model_name, markerGGML)
    ELSE IF PathName(mn) = gguf THEN QuantisedPaths(mn, model_name, markerGGUF)
    ELSE { PathJoinStr(mn, model_name) }

\* The test of the loops: mn.name in model_name.lower().
FolderMatches(mn, model_name) == Contains(PathName(mn), LowerStr(model_name))

\* ScanModelPath without its break: the last folder that matches wins.
RECURSIVE ScanModelPath_noBreak(_, _, _)
ScanModelPath_noBreak(folders, model_name, i) ==
    IF i > Len(folders) THEN {}
    ELSE LET rest == ScanModelPath_noBreak(folders, model_name, i + 1)
         IN  IF rest # {} THEN rest
             ELSE IF FolderMatches(folders[i], model_name)
                  THEN MatchedPaths(folders[i], model_name)
                  ELSE {}

\* The loop of searchModelPath from folder i on, with its break: the empty
\* set stands for model_path is None.
RECURSIVE ScanModelPath(_, _, _)
ScanModelPath(folders, model_name, i) ==
    IF i > Len(folders) THEN {}
    ELSE IF FolderMatches(folders[i], model_name)
         THEN MatchedPaths(folders[i], model_name)
         ELSE ScanModelPath(folders, model_name, i + 1)

Raise == [kind |-> "raise"]
ReturnNone == [kind |-> "none"]
ReturnPath(p) == [kind |-> "path", path |-> p]

\* searchModelPath falling back to the last folder, not the first.
searchModelPath_lastFolder(folders, model_name) ==
    LET found == ScanModelPath(folders, model_name, 1)
    IN  IF found # {} THEN { ReturnPath(p) : p \in found }
        ELSE IF folders = <<>> THEN { Raise }
        ELSE { ReturnPath(PathJoinStr(folders[Len(folders)], model_name)) }

\* searchModelPath: the outcomes it can have; models_folders[0] raises
\* IndexError when the list is empty.
searchModelPath(folders, model_name) ==
    LET found == ScanModelPath(folders, model_name, 1)
    IN  IF found # {} THEN { ReturnPath(p) : p \in found }
        ELSE IF folders = <<>> THEN { Raise }
        ELSE { ReturnPath(PathJoinStr(folders[1], model_name)) }

\* The first loop of searchModelParentFolder: the index of the first folder
\* whose lower-cased name is the lower-cased model_type, 0 when none is.
RECURSIVE ScanModelType(_, _, _)
ScanModelType(folders, model_type, i) ==
    IF i > Len(folders) THEN 0
    ELSE IF LowerStr(PathName(folders[i])) = LowerStr(model_type) THEN i
    ELSE ScanModelType(folders, model_type, i + 1)

\* The second loop of searchModelParentFolder, with its break.
RECURSIVE ScanParentFolder(_, _, _)
ScanParentFolder(folders, model_name, i) ==
    IF i > Len(folders) THEN 0
    ELSE IF FolderMatches(folders[i], model_name) THEN i
    ELSE ScanParentFolder(folders, model_name, i + 1)

searchModelParentFolder(folders, model_name, model_type) ==
    LET t == IF model_type.isNone THEN 0
             ELSE ScanModelType(folders, model_type.s, 1)
        n == ScanParentFolder(folders, model_name, 1)
    IN  IF t > 0 THEN ReturnPath(folders[t])
        ELSE IF n > 0 THEN ReturnPath(folders[n])
        ELSE IF folders = <<>> THEN Raise
        ELSE ReturnPath(folders[1])

\* get_model_path returning the place of the reference file, not what the
\* file holds.
get_model_path_refLocation(folders, model_name, content) ==
    IF model_name.isNone THEN { [kind |-> "none", ref |-> ReturnNone] }
    ELSE { IF r.kind = "raise" THEN [kind |-> "raise", ref |-> ReturnNone]
           ELSE IF EndsWith(model_name.s, dotReference)
                THEN IF Exists(r.path)
                     THEN [kind |-> "path", path |-> r.path, ref |-> r]
                     ELSE [kind |-> "none", ref |-> r]
                ELSE [kind |-> "path", path |-> r.path, ref |-> ReturnNone]
           : r \in searchModelPath(folders, model_name.s) }

\* get_model_path: the outcomes it can have, each with the reference file
\* it read (ref), if any.
get_model_path(folders, model_name, content) ==
    IF model_name.isNone THEN { [kind |-> "none", ref |-> ReturnNone] }
    ELSE { IF r.kind = "raise" THEN [kind |-> "raise", ref |-> ReturnNone]
           ELSE IF EndsWith(model_name.s, dotReference)
                THEN IF Exists(r.path)
                     THEN [kind |-> "path", path |-> Path(ReadFile(r.path, content)),
                           ref |-> r]
                     ELSE [kind |-> "none", ref |-> r]
                ELSE [kind |-> "path", path |-> r.path, ref |-> ReturnNone]
           : r \in searchModelPath(folders, model_name.s) }

\* ------------------------------------------------------------- actions
SearchModelPath(names) ==
    /\ constructed /\ last = Idle
    /\ \E n \in names :
         \E r \in searchModelPath(models_folders, n) :
           last' = [op |-> "searchModelPath", name |-> n, res |-> r]
    /\ UNCHANGED <<cfgFile, cfgMem, constructed, models_folders, dirs,
                   tempDirs, prevLoad, ctors, installs, fresh>>

SearchModelParentFolder(names) ==
    /\ constructed /\ last = Idle
    /\ \E n \in names, t \in ModelTypes :
         last' = [op |-> "searchModelParentFolder", name |-> n, type |-> t,
                  res |-> searchModelParentFolder(models_folders, n, t)]
    /\ UNCHANGED <<cfgFile, cfgMem, constructed, models_folders, dirs,
                   tempDirs, prevLoad, ctors, installs, fresh>>

\* What the reference file is found to hold when get_model_path reads it;
\* nothing is read for a name that is no reference.
ContentsRead(model_name) ==
    IF ~model_name.isNone /\ EndsWith(model_name.s, dotReference)
    THEN RefContents
    ELSE { <<>> }

GetModelPath(names) ==
    /\ constructed /\ last = Idle
    /\ \E n \in { NoneName } \cup { [isNone |-> FALSE, s |-> x] : x \in names } :
         \E content \in ContentsRead(n) :
           \E r \in get_model_path(models_folders, n, content) :
             last' = [op |-> "get_model_path", name |-> n, content |-> content,
                      res |-> r]
    /\ UNCHANGED <<cfgFile, cfgMem, constructed, models_folders, dirs,
                   tempDirs, prevLoad, ctors, installs, fresh>>

\* The caller has the outcome of its call and goes on.
Return ==
    /\ last # Idle
    /\ last' = Idle
    /\ UNCHANGED <<cfgFile, cfgMem, constructed, models_folders, dirs,
                   tempDirs, prevLoad, ctors, installs, fresh>>

\* self.models_folders as the constructor sets it.
FoldersOf(models_dir_names) ==
    IF models_dir_names.isNone
    THEN << PathJoinStr(personal_models_path, binding_folder_name) >>
    ELSE [i \in 1..Len(models_dir_names.names) |->
            PathJoinStr(personal_models_path, models_dir_names.names[i])]

\* lollms_paths.personal_configuration_path/"bindings"/binding_folder_name
configuration_dir ==
    [root |-> 1, parts |-> << <<"c">>, <<"b", "i", "n", "d", "i", "n", "g", "s">>,
                              binding_folder_name >>]

\* The directories that hold model files before any binding is constructed.
ModelDirsOnDisk ==
    { PathJoinStr(personal_models_path, d) : d \in { ggml, gguf, <<"a">>, binding_folder_name } }

\* p and the directories above it.
Ancestors(p) ==
    { [root |-> p.root, parts |-> SubSeq(p.parts, 1, n)] : n \in 1..Len(p.parts) }

\* p.mkdir(parents=True, exist_ok=True): the directories that exist after it.
mkdir(existing, p) == existing \cup Ancestors(p)

\* The constructor without its loop over models_folders.
MakeModelsFolders_skipped(existing, folders) == existing

\* for models_folder in self.models_folders: models_folder.mkdir(...).
MakeModelsFolders(existing, folders) ==
    existing \cup UNION { mkdir({}, folders[i]) : i \in 1..Len(folders) }

\* The directories on disk before any binding is constructed.
DirsOnDisk == UNION { Ancestors(d) : d \in ModelDirsOnDisk }

\* A constructed binding whose model files are looked up.
InitPaths ==
    /\ cfgFile = "default"
    /\ cfgMem = "default"
    /\ constructed = TRUE
    /\ \E l \in DirNameLists :
         /\ models_folders = FoldersOf(l)
         /\ dirs = MakeModelsFolders(mkdir(DirsOnDisk, configuration_dir),
                                      FoldersOf(l))
    /\ tempDirs = 0
    /\ prevLoad = "none"
    /\ ctors = 1
    /\ installs = 1
    /\ fresh = TRUE
    /\ last = Idle

NextPaths ==
    \/ SearchModelPath(ModelNames)
    \/ SearchModelParentFolder(ModelNames)
    \/ GetModelPath(ModelNames)
    \/ Return

SpecPaths == InitPaths /\ [][NextPaths]_vars

\* ---------------------------------------------- binding configuration
InstallOptions == { "NEVER_INSTALL", "INSTALL_IF_NECESSARY", "FORCE_INSTALL" }

\* binding_config.config.load_config() raises: there is no file, or the file
\* does not parse.
LoadFails(file) == file \in { "missing", "corrupt" }

\* binding_config.config.load_config(): the document now held in memory.
load_config(file) == file

\* binding_config.config.save_config(): the file, holding the document that
\* was in memory.
save_config(mem) == mem

\* load_binding_config with the save ahead of the load.
load_binding_config_saveFirst(file, mem) ==
    [file |-> save_config(mem), mem |-> mem, fallback |-> LoadFails(file),
     raised |-> FALSE, synced |-> TRUE]

\* load_binding_config without its except clause.
load_binding_config_noExcept(file, mem) ==
    IF LoadFails(file)
    THEN [file |-> file, mem |-> mem, fallback |-> FALSE, raised |-> TRUE,
          synced |-> FALSE]
    ELSE [file |-> file, mem |-> load_config(file), fallback |-> FALSE,
          raised |-> FALSE, synced |-> TRUE]

\* load_binding_config: the bare except swallows whatever load_config
\* raises and saves what is in memory; sync() then reconciles the document in
\* memory with the template and writes nothing.
load_binding_config(file, mem) ==
    IF LoadFails(file)
    THEN [file |-> save_config(mem), mem |-> mem, fallback |-> TRUE,
          raised |-> FALSE, synced |-> TRUE]
    ELSE [file |-> file, mem |-> load_config(file), fallback |-> FALSE,
          raised |-> FALSE, synced |-> TRUE]

\* save_config_file(path): path is not used, the file written is
\* configuration_file_path.
save_config_file(mem) == save_config(mem)

\* The test of the constructor with NEVER_INSTALL not looked at.
ShouldInstall_ignoresNever(exists, installation_option) ==
    ~exists \/ installation_option = "FORCE_INSTALL"

\* The test of the constructor.
ShouldInstall(exists, installation_option) ==
    /\ ~exists \/ installation_option = "FORCE_INSTALL"
    /\ installation_option # "NEVER_INSTALL"

\* The constructor without the save_config() of its install branch.
LLMBinding_init_noPersist(file, mem, installation_option) ==
    IF ShouldInstall(file # "missing", installation_option)
    THEN [file |-> file, mem |-> mem, installed |-> TRUE, loaded |-> FALSE,
          fallback |-> FALSE, raised |-> FALSE, synced |-> FALSE]
    ELSE LET r == load_binding_config(file, mem)
         IN  [file |-> r.file, mem |-> r.mem, installed |-> FALSE,
              loaded |-> TRUE, fallback |-> r.fallback, raised |-> r.raised,
              synced |-> r.synced]

\* The installation part of the constructor: install() only prints.
LLMBinding_init(file, mem, installation_option) ==
    IF ShouldInstall(file # "missing", installation_option)
    THEN [file |-> save_config(mem), mem |-> mem, installed |-> TRUE,
          loaded |-> FALSE, fallback |-> FALSE, raised |-> FALSE,
          synced |-> FALSE]
    ELSE LET r == load_binding_config(file, mem)
         IN  [file |-> r.file, mem |-> r.mem, installed |-> FALSE,
              loaded |-> TRUE, fallback |-> r.fallback, raised |-> r.raised,
              synced |-> r.synced]

\* How a load ended, for the next one to know.
LoadOutcome(r) == IF r.raised THEN "none" ELSE IF r.fallback THEN "fallback" ELSE "ok"

\* LLMBinding(...): binding_config comes with the defaults of its template.
Construct ==
    /\ last = Idle
    /\ ctors < MaxConstructions
    /\ \E installation_option \in InstallOptions, models_dir_names \in DirNameLists :
         LET r == LLMBinding_init(cfgFile, "default", installation_option)
             folders == FoldersOf(models_dir_names)
         IN  /\ cfgFile' = r.file
             /\ cfgMem' = r.mem
             /\ constructed' = TRUE
             /\ models_folders' = folders
             /\ dirs' = MakeModelsFolders(mkdir(dirs, configuration_dir), folders)
             /\ ctors' = ctors + 1
             /\ installs' = installs + (IF r.installed THEN 1 ELSE 0)
             /\ fresh' = (/\ fresh
                          /\ installation_option = "INSTALL_IF_NECESSARY"
                          /\ ctors = 0 => cfgFile = "missing")
             /\ prevLoad' = IF r.loaded THEN LoadOutcome(r) ELSE "none"
             /\ last' = [op |-> "init", option |-> installation_option,
                         dirNames |-> models_dir_names, dirsBefore |-> dirs,
                         fileBefore |-> cfgFile, memBefore |-> "default",
                         prev |-> prevLoad, installed |-> r.installed,
                         loaded |-> r.loaded, fallback |-> r.fallback,
                         raised |-> r.raised, synced |-> r.synced]
    /\ UNCHANGED tempDirs

LoadBindingConfig ==
    /\ constructed /\ last = Idle
    /\ LET r == load_binding_config(cfgFile, cfgMem)
       IN  /\ cfgFile' = r.file
           /\ cfgMem' = r.mem
           /\ prevLoad' = LoadOutcome(r)
           /\ last' = [op |-> "load_binding_config", fileBefore |-> cfgFile,
                       memBefore |-> cfgMem, prev |-> prevLoad,
                       fallback |-> r.fallback, raised |-> r.raised,
                       synced |-> r.synced]
    /\ UNCHANGED <<constructed, models_folders, dirs, tempDirs,
                   ctors, installs, fresh>>

SaveConfigFile ==
    /\ constructed /\ last = Idle
    /\ cfgFile' = save_config_file(cfgMem)
    /\ prevLoad' = "none"
    /\ last' = [op |-> "save_config_file", fileBefore |-> cfgFile]
    /\ UNCHANGED <<cfgMem, constructed, models_folders, dirs, tempDirs,
                   ctors, installs, fresh>>

\* Something outside the binding (the user, another program) removes the
\* configuration file, damages it or writes settings to it.
EnvTouchesConfig ==
    /\ last = Idle
    /\ \E v \in { "missing", "corrupt", "default", "custom" } \ { cfgFile } :
         /\ cfgFile' = v
         /\ fresh' = (fresh /\ v # "missing")
    /\ prevLoad' = "none"
    /\ UNCHANGED <<cfgMem, constructed, models_folders, dirs, tempDirs,
                   ctors, installs, last>>

\* ------------------------------------------------------------ vram_usage
\* What running nvidia-smi comes to: the exception check_output raises, or
\* "ok".
GpuTool == { "FileNotFoundError", "CalledProcessError", "PermissionError", "ok" }

\* The lines nvidia-smi prints: "good" is total, used, name; "bad" is a line
\* that int() or gpu[2] fails on.
GpuOutputs == UNION { [1..n -> { "good", "bad" }] : n \in 0..MaxGpus }

\* output.decode().strip().split('\n'): no output is one empty line.
VramInfo(output) == IF output = <<>> THEN << "bad" >> ELSE output

Report(n) == [raised |-> FALSE, nb_gpus |-> n, gpus |-> 0..(n - 1)]
Raised == [raised |-> TRUE, nb_gpus |-> 0, gpus |-> {}]

\* vram_usage catching FileNotFoundError only.
vram_usage_missingOnly(tool, output) ==
    IF tool = "FileNotFoundError" THEN Report(0)
    ELSE IF tool # "ok" THEN Raised
    ELSE IF \E i \in 1..Len(VramInfo(output)) : VramInfo(output)[i] = "bad"
         THEN Raised
         ELSE Report(Len(VramInfo(output)))

\* vram_usage: gpus are the i that have gpu_i_total_vram, gpu_i_used_vram and
\* gpu_i_model entries in the report.
vram_usage(tool, output) ==
    IF tool \in { "CalledProcessError", "FileNotFoundError" } THEN Report(0)
    ELSE IF tool # "ok" THEN Raised
    ELSE IF \E i \in 1..Len(VramInfo(output)) : VramInfo(output)[i] = "bad"
         THEN Raised
         ELSE Report(Len(VramInfo(output)))

\* A static method: it needs no binding.
VramUsage ==
    /\ last = Idle
    /\ \E tool \in GpuTool, output \in GpuOutputs :
         /\ tool # "ok" => output = <<>>
         /\ last' = [op |-> "vram_usage", tool |-> tool, output |-> output,
                     res |-> vram_usage(tool, output)]
    /\ UNCHANGED <<cfgFile, cfgMem, constructed, models_folders, dirs,
                   tempDirs, prevLoad, ctors, installs, fresh>>

\* ------------------------------------------ download_and_install_wheel
\* What the download comes to: requests.get raises, the response is not 200,
\* writing the wheel raises, pip fails (CalledProcessError), or all is well.
Downloads == { "get_raises", "status_404", "write_raises", "pip_fails", "ok" }

\* download_and_install_wheel: whether the temporary directory was removed,
\* whether an exception left the method, whether the wheel was installed.
download_and_install_wheel(net) ==
    CASE net = "ok" -> [removed |-> TRUE, raised |-> FALSE, installed |-> TRUE]
      [] net = "status_404" ->
            [removed |-> FALSE, raised |-> FALSE, installed |-> FALSE]
      [] OTHER -> [removed |-> TRUE, raised |-> FALSE, installed |-> FALSE]

DownloadAndInstallWheel ==
    /\ constructed /\ last = Idle
    /\ tempDirs < MaxTempDirs
    /\ \E net \in Downloads :
         LET r == download_and_install_wheel(net)
         IN  /\ tempDirs' = tempDirs + (IF r.removed THEN 0 ELSE 1)
             /\ last' = [op |-> "download_and_install_wheel", net |-> net,
                         tempBefore |-> tempDirs, res |-> r]
    /\ UNCHANGED <<cfgFile, cfgMem, constructed, models_folders, dirs,
                   prevLoad, ctors, installs, fresh>>

\* ------------------------------------------------------ the life cycle
\* Before any binding is constructed: no configuration file yet.
Init ==
    /\ cfgFile = "missing"
    /\ cfgMem = "default"
    /\ constructed = FALSE
    /\ models_folders = <<>>
    /\ dirs = DirsOnDisk
    /\ tempDirs = 0
    /\ prevLoad = "none"
    /\ ctors = 0
    /\ installs = 0
    /\ fresh = TRUE
    /\ last = Idle

Next ==
    \/ Construct
    \/ LoadBindingConfig
    \/ SaveConfigFile
    \/ EnvTouchesConfig
    \/ VramUsage
    \/ DownloadAndInstallWheel
    \/ SearchModelPath(ShortNames)
    \/ SearchModelParentFolder(ShortNames)
    \/ GetModelPath(ShortNames)
    \/ Return

Spec == Init /\ [][Next]_vars

\* ------------------------------------------------- claims: path resolution
\* p is (lexically) under directory d: its components extend d's.
Under(p, d) ==
    /\ p.root = d.root
    /\ Len(p.parts) >= Len(d.parts)
    /\ SubSeq(p.parts, 1, Len(d.parts)) = d.parts

\* The folders whose name is a substring of s.
NamedIn(s) ==
    { i \in 1..Len(models_folders) : Contains(PathName(models_folders[i]), s) }

Lowest(S) == CHOOSE i \in S : \A j \in S : i <= j

\* get_model_path was called with a name that does not end in ".reference".
DirectLookup ==
    /\ last.op = "get_model_path"
    /\ ~last.name.isNone
    /\ ~EndsWith(last.name.s, dotReference)

\* C1 as stated: for every model name m that does not end in ".reference",
\* get_model_path returns a path under one of the configured models
\* directories, and when no directory's name is a substring of m it returns
\* models_folders[0]/m.  It is read in its most favourable sense: some
\* directory is configured and m is a relative name.
C1_Original ==
    (DirectLookup /\ models_folders # <<>> /\ Path(last.name.s).root = 0) =>
        /\ last.res.kind = "path"
        /\ \E i \in 1..Len(models_folders) : Under(last.res.path, models_folders[i])
        /\ NamedIn(last.name.s) = {} =>
              last.res.path = PathJoinStr(models_folders[1], last.name.s)

\* C1 as amended: with at least one models directory configured, and for
\* every model name m that does not end in ".reference", get_model_path
\* returns a path; for a relative m the path is under one of the configured
\* directories, and when no directory's name is a substring of the
\* lower-cased m it is models_folders[0]/m.
C1_ModelPathUnderFolders ==
    (DirectLookup /\ models_folders # <<>>) =>
        /\ last.res.kind = "path"
        /\ Path(last.name.s).root = 0 =>
              \E i \in 1..Len(models_folders) : Under(last.res.path, models_folders[i])
        /\ NamedIn(LowerStr(last.name.s)) = {} =>
              last.res.path = PathJoinStr(models_folders[1], last.name.s)

\* C1's case: two folders, a non-empty relative name that names neither,
\* resolved under the first.
C1_Witness ==
    /\ DirectLookup
    /\ Len(models_folders) = 2
    /\ last.name.s # <<>>
    /\ Path(last.name.s).root = 0
    /\ NamedIn(LowerStr(last.name.s)) = {}
    /\ last.res.kind = "path"
    /\ last.res.path = PathJoinStr(models_folders[1], last.name.s)
    /\ ~Under(last.res.path, models_folders[2])

\* get_model_path was called with a name ending in ".reference" and found a
\* file at the place searchModelPath gave.
ReferenceLookup ==
    /\ last.op = "get_model_path"
    /\ ~last.name.isNone
    /\ EndsWith(last.name.s, dotReference)
    /\ last.res.ref.kind = "path"
    /\ Exists(last.res.ref.path)

Redundant(p) ==
    \/ p = <<>>
    \/ Len(p) > 1 /\ p[Len(p)] = "/"
    \/ \E i \in 2..(Len(p) - 1) : p[i] = "/" /\ p[i + 1] = "/"
    \/ \E i \in 1..Len(p) :
          /\ p[i] = "."
          /\ i = 1 \/ p[i - 1] = "/"
          /\ i = Len(p) \/ p[i + 1] = "/"

C9_Original ==
    (/\ last.op \in { "searchModelPath", "searchModelParentFolder" }
     /\ Path(last.name).root = 0
     /\ Cardinality(NamedIn(LowerStr(last.name))) >= 2) =>
        /\ last.res.kind = "path"
        /\ Under(last.res.path, models_folders[Lowest(NamedIn(LowerStr(last.name)))])

\* The folders whose lower-cased name is the lower-cased model_type.
TypedAs(t) ==
    { i \in 1..Len(models_folders) :
        LowerStr(PathName(models_folders[i])) = LowerStr(t) }

\* C9 as amended: when one or more directory names are substrings of the
\* lower-cased model name, the first such directory of models_folders wins:
\* searchModelPath returns that directory joined with the model name or with
\* the name of one of its files, and searchModelParentFolder returns that
\* directory, unless a model_type is given that is the name of a directory
\* (case ignored), and then the first directory so named.  The directory is
\* thus a function of the model name, the model_type and the directory list.
C9_FirstFolderWins ==
    (/\ last.op \in { "searchModelPath", "searchModelParentFolder" }
     /\ NamedIn(LowerStr(last.name)) # {}) =>
        LET mn == models_folders[Lowest(NamedIn(LowerStr(last.name)))]
        IN  /\ last.res.kind = "path"
            /\ last.op = "searchModelPath" =>
                  \/ last.res.path = PathJoinStr(mn, last.name)
                  \/ \E f \in DirListing(PathName(mn)) :
                        last.res.path = PathJoinStr(mn, f)
            /\ last.op = "searchModelParentFolder" =>
                  IF ~last.type.isNone /\ TypedAs(last.type.s) # {}
                  THEN last.res.path = models_folders[Lowest(TypedAs(last.type.s))]
                  ELSE last.res.path = mn

\* C9's case: the names of both folders are in the lower-cased model name and
\* searchModelPath resolved under the first, not the second.
C9_Witness ==
    /\ last.op = "searchModelPath"
    /\ NamedIn(LowerStr(last.name)) = { 1, 2 }
    /\ Path(last.name).root = 0
    /\ last.res.kind = "path"
    /\ Under(last.res.path, models_folders[1])
    /\ ~Under(last.res.path, models_folders[2])

\* searchModelPath was called and the first folder named in the lower-cased
\* model name is called d.
MatchedFolderNamed(d) ==
    /\ last.op = "searchModelPath"
    /\ NamedIn(LowerStr(last.name)) # {}
    /\ PathName(models_folders[Lowest(NamedIn(LowerStr(last.name)))]) = d

\* The files of the matched folder whose lower-cased name contains the
\* lower-cased part of the model name before the marker.
PrefixFiles(marker) ==
    { f \in DirListing(PathName(models_folders[Lowest(NamedIn(LowerStr(last.name)))])) :
        Contains(LowerStr(Take(last.name, Index(last.name, marker))), LowerStr(f)) }

QuantisedRule(d, marker) ==
    MatchedFolderNamed(d) =>
        LET mn == models_folders[Lowest(NamedIn(LowerStr(last.name)))]
        IN  /\ last.res.kind = "path"
            /\ IF Contains(marker, last.name) /\ PrefixFiles(marker) # {}
               THEN \E f \in PrefixFiles(marker) : last.res.path = PathJoinStr(mn, f)
               ELSE last.res.path = PathJoinStr(mn, last.name)

\* C10: when the matched directory is named "ggml" (resp. "gguf") and the
\* model name contains "-GGML" (resp. "-GGUF"), searchModelPath returns a file
\* of that directory whose lower-cased name contains the lower-cased part of
\* the model name before the marker; when the marker is absent or no file
\* matches, it returns directory/model_name and does not raise.
C10_QuantisedPrefix ==
    /\ QuantisedRule(ggml, markerGGML)
    /\ QuantisedRule(gguf, markerGGUF)

\* C10's case: the folder is gguf, the name holds the marker after a
\* non-empty prefix, and a file of the folder came back in place of the name.
C10_Witness ==
    /\ MatchedFolderNamed(gguf)
    /\ Index(last.name, markerGGUF) > 0
    /\ last.res.kind = "path"
    /\ last.res.path # PathJoinStr(models_folders[Lowest(NamedIn(LowerStr(last.name)))], last.name)
    /\ PathName(last.res.path) \in PrefixFiles(markerGGUF)

\* ---------------------------------------------------- claims: life cycle
\* load_binding_config ran, on its own or in the constructor.
LoadCall ==
    \/ last.op = "load_binding_config"
    \/ last.op = "init" /\ last.loaded

\* C3 as stated: when load_binding_config is called and loading the file
\* fails, the failure is swallowed, the default configuration is written to
\* the file, and a load that follows succeeds without the fallback.
C3_Original ==
    /\ (LoadCall /\ LoadFails(last.fileBefore)) =>
          /\ ~last.raised
          /\ cfgFile = "default"
    /\ (LoadCall /\ last.prev = "fallback") =>
          /\ ~last.raised
          /\ ~last.fallback

\* C3 as amended: when load_binding_config is called and loading the file
\* fails (no file, or one that does not parse), the failure is swallowed and
\* the configuration the binding holds in memory is written to the file: the
\* defaults when nothing was loaded before, the last loaded settings otherwise.
\* A load that follows finds that file, succeeds without the fallback and
\* leaves the file as it is.
C3_LoadFallback ==
    /\ (LoadCall /\ LoadFails(last.fileBefore)) =>
          /\ ~last.raised
          /\ last.fallback
          /\ cfgFile = last.memBefore
          /\ cfgMem = last.memBefore
          /\ ~LoadFails(cfgFile)
          /\ last.op = "init" => cfgFile = "default"
    /\ (LoadCall /\ last.prev = "fallback") =>
          /\ ~last.raised
          /\ ~last.fallback
          /\ cfgFile = last.fileBefore
          /\ cfgMem = cfgFile

\* C3's case: load_binding_config was called again right after a load that
\* took the fallback, and loaded what that one wrote.
C3_Witness ==
    /\ last.op = "load_binding_config"
    /\ last.prev = "fallback"
    /\ ~last.fallback
    /\ ~last.raised
    /\ cfgFile = last.fileBefore

\* The condition C5 gives for the install branch.
InstallCase ==
    /\ last.fileBefore = "missing" \/ last.option = "FORCE_INSTALL"
    /\ last.option # "NEVER_INSTALL"

C7_InstallOnce ==
    (fresh /\ ctors >= 1) =>
        /\ installs = 1
        /\ cfgFile # "missing"
        /\ last.op = "init" =>
              /\ last.installed <=> ctors = 1
              /\ last.loaded <=> ctors > 1

\* C7's case: a second or later construction that loaded.
C7_Witness ==
    /\ fresh
    /\ ctors >= 2
    /\ installs = 1
    /\ last.op = "init"
    /\ last.loaded
    /\ ~last.installed

\* C8 as stated: apart from the persist of the install branch of the
\* constructor and save_config_file, no operation of LLMBinding writes or
\* changes the configuration file.  (A step that leaves last at Idle is a
\* step of something outside the binding.)
C8_Original ==
    [][cfgFile' # cfgFile =>
          \/ last = Idle /\ last' = Idle
          \/ last'.op = "save_config_file"
          \/ last'.op = "init" /\ last'.installed]_vars

\* C8 as amended: the configuration file is written by the install branch of
\* the constructor, by save_config_file, and by load_binding_config (called
\* directly or by the constructor's load branch) when loading fails; no other
\* operation of LLMBinding changes it, and a load that succeeds leaves it as
\* it is.
C8_ConfigWriters ==
    [][cfgFile' # cfgFile =>
          \/ last = Idle /\ last' = Idle
          \/ last'.op = "save_config_file"
          \/ last'.op = "init" /\ last'.installed
          \/ /\ last'.op = "load_binding_config" \/ (last'.op = "init" /\ last'.loaded)
             /\ last'.fallback
             /\ LoadFails(cfgFile)]_vars

\* C8's case: load_binding_config found no file it could load and wrote one.
C8_Witness ==
    /\ last.op = "load_binding_config"
    /\ last.fallback
    /\ last.fileBefore = "corrupt"
    /\ cfgFile # last.fileBefore

\* ------------------------------------------- claims: the other methods
\* C4: vram_usage lets no exception out when the GPU-query tool is absent or
\* fails: if the tool is missing or exits non-zero, the report has
\* nb_gpus = 0 and no per-GPU entry.
C4_NoGpuReport ==
    (/\ last.op = "vram_usage"
     /\ last.tool \in { "FileNotFoundError", "CalledProcessError" }) =>
        /\ ~last.res.raised
        /\ last.res.nb_gpus = 0
        /\ last.res.gpus = {}

\* C4's case: nvidia-smi ran and exited non-zero.
C4_Witness ==
    /\ last.op = "vram_usage"
    /\ last.tool = "CalledProcessError"
    /\ ~last.res.raised
    /\ last.res.nb_gpus = 0

\* C6: download_and_install_wheel lets no exception out, and in every
\* outcome the temporary directory it made is removed by the time it returns.
C6_TempDirRemoved ==
    last.op = "download_and_install_wheel" =>
        /\ ~last.res.raised
        /\ last.res.removed
        /\ tempDirs = last.tempBefore

\* ------------------------------------------- claims: the directories
\* models_folders as the constructor's models_dir_names gives it:
\* personal_models_path joined with each name, or with the binding folder
\* name when models_dir_names is None.
GivenFolders(models_dir_names) ==
    IF models_dir_names.isNone
    THEN << [root |-> personal_models_path.root,
             parts |-> Append(personal_models_path.parts, binding_folder_name)] >>
    ELSE [i \in 1..Len(models_dir_names.names) |->
            [root |-> personal_models_path.root,
             parts |-> Append(personal_models_path.parts,
                              models_dir_names.names[i])]]

\* The directory of the configuration file and every models folder exist.
DirectoriesExist ==
    /\ configuration_dir \in dirs
    /\ \A i \in 1..Len(models_folders) : models_folders[i] \in dirs

\* A lookup was made with a model name.
NamedLookup ==
    \/ last.op \in { "searchModelPath", "searchModelParentFolder" }
    \/ last.op = "get_model_path" /\ ~last.name.isNone

\* C11 as stated: once a binding is constructed, the configuration file's
\* parent directory and every directory of models_folders exist, and
\* models_folders is not empty: it is personal_models_path joined with each
\* of models_dir_names, or with the binding folder name when
\* models_dir_names is None.
C11_Original ==
    constructed =>
        /\ DirectoriesExist
        /\ models_folders # <<>>
        /\ last.op = "init" => models_folders = GivenFolders(last.dirNames)

\* C11: once a binding is constructed, the configuration file's parent
\* directory and every directory of models_folders exist on disk, in every
\* later state and so at every lookup; the constructor removes no directory
\* and leaves models_folders as personal_models_path joined with each of
\* models_dir_names, or with the binding folder name when models_dir_names
\* is None.  models_folders is empty exactly when models_dir_names is an
\* empty list, and then searchModelPath, searchModelParentFolder, and
\* get_model_path with a model name raise IndexError, which they never do
\* when models_folders is not empty.
C11_DirectoriesExist ==
    /\ constructed => DirectoriesExist
    /\ last.op = "init" =>
         /\ models_folders = GivenFolders(last.dirNames)
         /\ last.dirsBefore \subseteq dirs
         /\ models_folders = <<>> <=>
              (~last.dirNames.isNone /\ last.dirNames.names = <<>>)
    /\ (NamedLookup /\ models_folders = <<>>) => last.res.kind = "raise"
    /\ (NamedLookup /\ models_folders # <<>>) => last.res.kind # "raise"

\* C11's case: the constructor was given the names GGUF and gguf, no
\* directory GGUF existed before, and it exists now.
C11_Witness ==
    /\ last.op = "init"
    /\ last.dirNames = [isNone |-> FALSE, names |-> <<GGUF, gguf>>]
    /\ models_folders[1] \notin last.dirsBefore
    /\ models_folders[1] \in dirs
    /\ configuration_dir \notin last.dirsBefore

====
